---- MODULE Spec2Model ----
(***************************************************************************)
(* A model of the execution engine of FMotalleb/executor:                  *)
(*   cmd/executor/executor.go   StartExecution, asChan   (the Controller)   *)
(*   cmd/executor/processor.go  processor, process, prepareArgs,            *)
(*                              spawnProcess, spawnSubprocess, connectPipes *)
(*                              (the Workers and their subprocesses)        *)
(*   executor/config.go         Config.Validate                             *)
(* Goroutines are processes with a program counter; an unbuffered channel   *)
(* operation is one step taken jointly by the sender and the receiver.      *)
(* The model covers StartExecution and the goroutines and subprocesses it   *)
(* starts; the process that hosts them keeps running after it returns.      *)
(* Integers are far from the limits of Go's 64-bit int.                     *)
(***************************************************************************)
EXTENDS Integers, Sequences, FiniteSets, TLC

\* ------------------------------------------------------------------ bounds
MaxLimit == 3
MaxBatchSize == 2
MaxParallel == 2
MaxRetry == 2

\* The width of Go's uint (ExecRequest.Retry and TryCount), scaled down.
UintBits == 3
MaxUint == 2^UintBits - 1

\* The counters of invocations kept for a job stop counting here, past any
\* number of attempts a retry budget allows.
CountCap == MaxUint + 2

Workers == 1..MaxParallel

VARIABLES
    cfg,            \* the Config handed to StartExecution
    ctxDone,        \* the root context has been cancelled
    pc,             \* where the StartExecution goroutine is
    i,              \* the partition cursor of the dispatch loop
    wg,             \* the sync.WaitGroup counter
    closed,         \* reqChannel has been closed
    pending,        \* the ExecRequest the Controller is blocked sending
    result,         \* what StartExecution returned
    waiter,         \* where the goroutine started by asChan(wg.Wait) is
    wpc,            \* where each processor goroutine is
    req,            \* the ExecRequest each processor holds (r)
    cur,            \* its index in jobs (0: none)
    expired,        \* the deadline of the attempt's context has passed
    proc,           \* the subprocess of the attempt
    calls,          \* spawnProcess invocations for the job held
    renderFails,    \* prepareArgs failures for the job held
    att,            \* how the processor's last attempt ended, until its next step
    draining,       \* an io.Copy goroutine of the processor's attempts still runs
    stdinw,         \* the stdin-writing goroutine of the processor's attempts
    argv,           \* the arguments exec.CommandContext got for the job held
    spare,          \* the element of cfg.ShellArgs' array just past its length
    jobs,           \* every ExecRequest received so far, in order
    cancelInFlight, \* the root was cancelled while a received job was not finished
    killedByRoot    \* a subprocess was killed because the root was cancelled

vars == <<cfg, ctxDone, pc, i, wg, closed, pending, result, waiter, wpc, req,
          cur, expired, proc, calls, renderFails, att, draining, stdinw,
          argv, spare, jobs, cancelInFlight, killedByRoot>>

ctrlVars == <<pc, i, wg, closed, pending, result>>
workerVars == <<wpc, req, cur, expired, proc, calls, renderFails, att,
                draining, stdinw, argv, spare>>

Min(a, b) == IF a < b THEN a ELSE b

\* processor.go:86: r.TryCount++ on a uint wraps around.
UintInc(x) == (x + 1) % (MaxUint + 1)

\* ------------------------------------------------------------ configuration
\* os.Stat on the paths the model uses.
Stat(path) ==
    CASE path = "dir" -> "dir"
      [] path = "file" -> "file"
      [] OTHER -> "missing"

\* A variant of Validate that also rejects offset = limit.
ValidateStrictOffset(c) ==
    IF c.Shell = "" THEN "shell is required"
    ELSE IF c.Command = "" THEN "command is required"
    ELSE IF c.WorkingDirectory # "" /\ Stat(c.WorkingDirectory) # "dir"
        THEN "working directory is not a directory"
    ELSE IF c.Limit <= 0 THEN "limit cannot be zero or negative"
    ELSE IF c.Offset < 0 THEN "offset cannot be negative"
    ELSE IF c.Offset >= c.Limit THEN "offset cannot be greater than limit"
    ELSE IF c.BatchSize <= 0 THEN "batch size must be greater than zero"
    ELSE IF c.Timeout <= 0 THEN "timeout cannot be negative"
    ELSE IF c.Parallel <= 0 THEN "parallel must be greater than zero"
    ELSE IF c.LogDir # "" /\ Stat(c.LogDir) # "dir"
        THEN "log directory is not a directory"
    ELSE "nil"

\* A variant of Validate without the check of the timeout.
ValidateNoTimeoutCheck(c) ==
    IF c.Shell = "" THEN "shell is required"
    ELSE IF c.Command = "" THEN "command is required"
    ELSE IF c.WorkingDirectory # "" /\ Stat(c.WorkingDirectory) # "dir"
        THEN "working directory is not a directory"
    ELSE IF c.Limit <= 0 THEN "limit cannot be zero or negative"
    ELSE IF c.Offset < 0 THEN "offset cannot be negative"
    ELSE IF c.Offset > c.Limit THEN "offset cannot be greater than limit"
    ELSE IF c.BatchSize <= 0 THEN "batch size must be greater than zero"
    ELSE IF c.Parallel <= 0 THEN "parallel must be greater than zero"
    ELSE IF c.LogDir # "" /\ Stat(c.LogDir) # "dir"
        THEN "log directory is not a directory"
    ELSE "nil"

\* Config.Validate: the first failing check decides; "nil" when all pass.
Validate(c) ==
    IF c.Shell = "" THEN "shell is required"
    ELSE IF c.Command = "" THEN "command is required"
    ELSE IF c.WorkingDirectory # "" /\ Stat(c.WorkingDirectory) = "missing"
        THEN "working directory does not exist"
    ELSE IF c.WorkingDirectory # "" /\ Stat(c.WorkingDirectory) # "dir"
        THEN "working directory is not a directory"
    ELSE IF c.Limit <= 0 THEN "limit cannot be zero or negative"
    ELSE IF c.Offset < 0 THEN "offset cannot be negative"
    ELSE IF c.Offset > c.Limit THEN "offset cannot be greater than limit"
    ELSE IF c.BatchSize <= 0 THEN "batch size must be greater than zero"
    ELSE IF c.Timeout <= 0 THEN "timeout cannot be negative"
    ELSE IF c.Parallel <= 0 THEN "parallel must be greater than zero"
    ELSE IF c.LogDir # "" /\ Stat(c.LogDir) = "missing"
        THEN "log directory does not exist"
    ELSE IF c.LogDir # "" /\ Stat(c.LogDir) # "dir"
        THEN "log directory is not a directory"
    ELSE "nil"

BaseCfg ==
    [Shell |-> "/bin/sh", Command |-> "cmd", WorkingDirectory |-> "dir",
     LogDir |-> "dir", Limit |-> 2, Offset |-> 0, BatchSize |-> 1,
     Timeout |-> 1, Parallel |-> 1, Retry |-> 0, StdIn |-> "",
     ShellArgs |-> <<"-c">>, ArgsCap |-> 1]

\* The range, the batch size and the timeout over their whole small ranges,
\* invalid values included, for no processor and for one, without retries.
PartitionCfgs ==
    { [BaseCfg EXCEPT !.Limit = l, !.Offset = o, !.BatchSize = b,
                      !.Parallel = p, !.Timeout = t] :
        l \in 0..MaxLimit, o \in (-1)..MaxLimit, b \in 0..MaxBatchSize,
        p \in 0..1, t \in 0..1 }

\* The retry budget over its whole range, for the two batches of the base
\* range run by one processor.
RetryCfgs == { [BaseCfg EXCEPT !.Retry = r] : r \in 0..MaxRetry }

\* The pool over its whole range for the two batches of the base range; two
\* processors for three batches, and for two batches with a retry.
PoolCfgs ==
    { [BaseCfg EXCEPT !.Parallel = p] : p \in 0..MaxParallel } \cup
    { [BaseCfg EXCEPT !.Limit = 3, !.Parallel = 2],
      [BaseCfg EXCEPT !.Parallel = 2, !.Retry = 1] }

\* The string fields, one at a time, around the base configuration.
FieldCfgs ==
    { [BaseCfg EXCEPT !.Shell = s] : s \in {"", "/bin/sh"} } \cup
    { [BaseCfg EXCEPT !.Command = s] : s \in {"", "cmd"} } \cup
    { [BaseCfg EXCEPT !.WorkingDirectory = s] : s \in {"", "dir", "file", "gone"} } \cup
    { [BaseCfg EXCEPT !.LogDir = s] : s \in {"", "dir", "file", "gone"} }

\* A stdin template that renders to text, for the two batches of the base
\* range.
StdinCfgs == { [BaseCfg EXCEPT !.StdIn = "in"] }

\* Shell arguments given by three --shell-args flags: the slice the flag
\* library grew by appending has three elements in an array of four. One
\* processor and two.
SharedArgsCfgs ==
    { [BaseCfg EXCEPT !.ShellArgs = <<"-e", "-u", "-c">>, !.ArgsCap = 4,
                      !.Parallel = p] : p \in {1, 2} }

Configs ==
    PartitionCfgs \cup RetryCfgs \cup PoolCfgs \cup FieldCfgs \cup StdinCfgs
        \cup SharedArgsCfgs

NoReq == [Offset |-> 0, BatchSize |-> 0, Retry |-> 0, TryCount |-> 0]

\* The nil error, and an error with its message and the code it carries.
ErrNil == [msg |-> "nil", code |-> 0]
Err(msg, code) == [msg |-> msg, code |-> code]

\* No attempt has ended since the processor's last step.
NoAttempt == [cause |-> "none", ec |-> 0, err |-> ErrNil]

\* No stdin-writing goroutine is running.
NoWriter == [st |-> "none", data |-> ""]

\* executor.go:33-43: the state when StartExecution is entered, whatever the
\* configuration.
InitState ==
    /\ ctxDone = FALSE
    /\ pc = "validate"
    /\ i = 0
    /\ wg = 0
    /\ closed = FALSE
    /\ pending = NoReq
    /\ result = "none"
    /\ waiter = "none"
    /\ wpc = [w \in Workers |-> "none"]
    /\ req = [w \in Workers |-> NoReq]
    /\ cur = [w \in Workers |-> 0]
    /\ expired = [w \in Workers |-> FALSE]
    /\ proc = [w \in Workers |-> "none"]
    /\ calls = [w \in Workers |-> 0]
    /\ renderFails = [w \in Workers |-> 0]
    /\ att = [w \in Workers |-> NoAttempt]
    /\ draining = [w \in Workers |-> FALSE]
    /\ stdinw = [w \in Workers |-> NoWriter]
    /\ argv = [w \in Workers |-> <<>>]
    /\ spare = ""
    /\ jobs = <<>>
    /\ cancelInFlight = FALSE
    /\ killedByRoot = FALSE

Init == cfg \in Configs /\ InitState

\* ------------------------------------------------------------- Controller
\* executor.go:35-41: an invalid configuration is fatal (log.Fatal exits).
ValidateFatal ==
    /\ pc = "validate"
    /\ Validate(cfg) # "nil"
    /\ pc' = "fatal"
    /\ result' = "fatal"
    /\ UNCHANGED <<cfg, ctxDone, i, wg, closed, pending, waiter, workerVars,
                   jobs, cancelInFlight,
                   killedByRoot>>

\* A variant of WorkerStarted whose loop runs once more (<= for <).
WorkerStartedOneMore(w, c) == w - 1 <= c.Parallel

\* executor.go:45-47: the loop 'for i := 0; i < cfg.Parallel; i++' starts
\* processor number w (counted from 1) when w - 1 < cfg.Parallel.
WorkerStarted(w, c) == w - 1 < c.Parallel

\* executor.go:42-49: the channel, the WaitGroup, cfg.Parallel processors.
StartWorkers ==
    /\ pc = "validate"
    /\ Validate(cfg) = "nil"
    /\ wpc' = [w \in Workers |-> IF WorkerStarted(w, cfg) THEN "range" ELSE "none"]
    /\ i' = cfg.Offset
    /\ pc' = "loop"
    /\ UNCHANGED <<stdinw, argv, spare>>
    /\ UNCHANGED <<cfg, ctxDone, wg, closed, pending, result, waiter, req, cur,
                   expired, proc, calls, renderFails, att, draining, jobs,
                   cancelInFlight, killedByRoot>>

\* A variant of LoopCond that includes the end of the range (<= for <).
LoopCondInclusive(cursor, end) == cursor <= end

\* executor.go:52: the condition of the dispatch loop.
LoopCond(cursor, end) == cursor < end

\* A variant of BatchLimit that never truncates the last batch.
BatchLimitUntruncated(offset, stepSize, end) == stepSize

\* executor.go:55-58: the size of the batch that starts at offset.
BatchLimit(offset, stepSize, end) ==
    IF offset + stepSize > end THEN end - offset ELSE stepSize

\* A variant of NewRequest that hands out the range from its end.
NewRequestFromEnd(c, offset) ==
    [Offset |-> c.Offset + c.Limit - offset - BatchLimit(offset, c.BatchSize, c.Limit),
     BatchSize |-> BatchLimit(offset, c.BatchSize, c.Limit),
     Retry |-> c.Retry,
     TryCount |-> 0]

\* executor.go:59-77: the ExecRequest built for the batch at offset.
NewRequest(c, offset) ==
    [Offset |-> offset,
     BatchSize |-> BatchLimit(offset, c.BatchSize, c.Limit),
     Retry |-> c.Retry,
     TryCount |-> 0]

\* A variant of LoopNext that sends the request without wg.Add.
LoopNextWithoutAdd ==
    /\ pc = "loop"
    /\ LoopCond(i, cfg.Limit)
    /\ pending' = NewRequest(cfg, i)
    /\ pc' = "send"
    /\ UNCHANGED <<cfg, ctxDone, i, wg, closed, result, waiter, workerVars,
                   jobs, cancelInFlight, killedByRoot>>

\* A variant of LoopNext that adds the size of the batch to the counter.
LoopNextAddsBatchSize ==
    /\ pc = "loop"
    /\ LoopCond(i, cfg.Limit)
    /\ wg' = wg + NewRequest(cfg, i).BatchSize
    /\ pending' = NewRequest(cfg, i)
    /\ pc' = "send"
    /\ UNCHANGED <<cfg, ctxDone, i, closed, result, waiter, workerVars, jobs,
                   cancelInFlight,
                   killedByRoot>>

\* executor.go:52-59: one more partition: wg.Add(1), then the send begins.
LoopNext ==
    /\ pc = "loop"
    /\ LoopCond(i, cfg.Limit)
    /\ wg' = wg + 1
    /\ pending' = NewRequest(cfg, i)
    /\ pc' = "send"
    /\ UNCHANGED <<cfg, ctxDone, i, closed, result, waiter, workerVars, jobs,
                   cancelInFlight,
                   killedByRoot>>

\* executor.go:80-84: the loop is over; entering the select evaluates
\* asChan(wg.Wait), which starts the goroutine that waits for the counter.
LoopEnd ==
    /\ pc = "loop"
    /\ ~LoopCond(i, cfg.Limit)
    /\ waiter' = "waiting"
    /\ pc' = "select"
    /\ UNCHANGED <<cfg, ctxDone, i, wg, closed, pending, result, workerVars,
                   jobs, cancelInFlight,
                   killedByRoot>>

\* A variant of RetryLoopCond that is off by one (< for <=).
RetryLoopCondStrict(r) == r.TryCount < r.Retry

\* processor.go:84: the condition of the retry loop.
RetryLoopCond(r) == r.TryCount <= r.Retry

\* processor.go:84-91: where the processor goes when it evaluates the retry
\* loop's condition: into process, or out of the loop to wg.Done.
AfterLoopCond(r) == IF RetryLoopCond(r) THEN "prepareArgs" ELSE "wgDone"

\* A variant of CanReceive for a channel with a buffer: a send completes
\* while the processor is busy.
CanReceiveWhileBusy(w) == wpc[w] \notin {"none", "exited"}

\* processor.go:83: a processor receives only while it is blocked in
\* 'range requests'; the channel of executor.go:42 has no buffer.
CanReceive(w) == wpc[w] = "range"

\* executor.go:59 with processor.go:83: the unbuffered channel hands the
\* pending ExecRequest to a processor blocked in range; the Controller's
\* cursor advances (executor.go:52, i += stepSize).
Dispatch(w) ==
    /\ pc = "send"
    /\ CanReceive(w)
    /\ req' = [req EXCEPT ![w] = pending]
    /\ jobs' = Append(jobs, [Offset |-> pending.Offset,
                             BatchSize |-> pending.BatchSize,
                             done |-> 0, outcome |-> "inflight",
                             names |-> {}])
    /\ cur' = [cur EXCEPT ![w] = Len(jobs) + 1]
    /\ calls' = [calls EXCEPT ![w] = 0]
    /\ renderFails' = [renderFails EXCEPT ![w] = 0]
    /\ wpc' = [wpc EXCEPT ![w] = AfterLoopCond(pending)]
    /\ pending' = NoReq
    /\ i' = i + cfg.BatchSize
    /\ pc' = "loop"
    /\ UNCHANGED <<stdinw, argv, spare>>
    /\ UNCHANGED <<cfg, ctxDone, wg, closed, result, waiter, expired, proc,
                   att, draining, cancelInFlight, killedByRoot>>

\* A variant of ReturnValue that reports a failed job as an error of the run.
ReturnValueJobAware(branch) ==
    IF branch = "ctx" \/ (\E j \in 1..Len(jobs) : jobs[j].outcome = "failed")
        THEN "error" ELSE "nil"

\* executor.go:81-86: what each branch of the select returns.
ReturnValue(branch) == IF branch = "ctx" THEN "error" ELSE "nil"

\* executor.go:80-87: the select polls its two cases. With several ready Go
\* picks any of them; with none ready the goroutine blocks on both channels.
SelectPoll ==
    /\ pc = "select"
    /\ \/ /\ ctxDone
          /\ pc' = "retCtx"
          /\ UNCHANGED waiter
       \/ /\ waiter = "sending"
          /\ pc' = "retWait"
          /\ waiter' = "done"
       \/ /\ ~ctxDone
          /\ waiter # "sending"
          /\ pc' = "blocked"
          /\ UNCHANGED waiter
    /\ UNCHANGED <<cfg, ctxDone, i, wg, closed, pending, result, workerVars,
                   jobs, cancelInFlight,
                   killedByRoot>>

\* A variant of Return without the deferred close(reqChannel).
ReturnWithoutClose ==
    /\ pc \in {"retCtx", "retWait"}
    /\ result' = (IF pc = "retCtx" THEN "error" ELSE "nil")
    /\ pc' = "returned"
    /\ UNCHANGED <<cfg, ctxDone, i, wg, closed, pending, waiter, workerVars,
                   jobs, cancelInFlight, killedByRoot>>

\* executor.go:44,83,86: the chosen branch returns; the deferred
\* close(reqChannel) runs.
Return ==
    /\ pc \in {"retCtx", "retWait"}
    /\ result' = ReturnValue(IF pc = "retCtx" THEN "ctx" ELSE "wait")
    /\ closed' = TRUE
    /\ pc' = "returned"
    /\ UNCHANGED <<cfg, ctxDone, i, wg, pending, waiter, workerVars, jobs,
                   cancelInFlight,
                   killedByRoot>>

\* A variant of WgWaitReturns that is content with one job outstanding.
WgWaitReturnsAtOne == wg <= 1

\* sync.WaitGroup.Wait (executor.go:84, 94) returns when the counter is zero.
WgWaitReturns == wg = 0

\* executor.go:91-98 (asChan): wg.Wait returns once the counter is zero and the
\* goroutine reaches ch <- nil; a Controller blocked in the select takes it.
WaiterWake ==
    /\ waiter = "waiting"
    /\ WgWaitReturns
    /\ IF pc = "blocked"
          THEN waiter' = "done" /\ pc' = "retWait"
          ELSE waiter' = "sending" /\ pc' = pc
    /\ UNCHANGED <<cfg, ctxDone, i, wg, closed, pending, result, workerVars,
                   jobs, cancelInFlight,
                   killedByRoot>>

\* A received job that has not reached wg.Done.
InFlight == \E j \in 1..Len(jobs) : jobs[j].outcome = "inflight"

\* The caller cancels the root context (executor.go:73, 81) during the run: a
\* Controller blocked in the select is woken on ctx.Done().
Cancel ==
    /\ ~ctxDone
    /\ pc \notin {"fatal", "returned"}
    /\ ctxDone' = TRUE
    /\ pc' = IF pc = "blocked" THEN "retCtx" ELSE pc
    /\ cancelInFlight' = InFlight
    /\ UNCHANGED <<cfg, i, wg, closed, pending, result, waiter, workerVars, jobs,
                   killedByRoot>>

\* ---------------------------------------------------------------- Workers
\* processor.go:85-86: process returned an error: r.TryCount++, and the retry
\* loop's condition is evaluated again.
Fail(w) ==
    LET r == [req[w] EXCEPT !.TryCount = UintInc(@)] IN
    /\ req' = [req EXCEPT ![w] = r]
    /\ wpc' = [wpc EXCEPT ![w] = AfterLoopCond(r)]
    /\ jobs' = IF RetryLoopCond(r) THEN jobs
               ELSE [jobs EXCEPT ![cur[w]].outcome = "failed"]

\* A variant of getVarMap whose limit is the size of the batch.
getVarMapLimitIsSize(r) ==
    [offset |-> r.Offset, batchSize |-> r.BatchSize, limit |-> r.BatchSize,
     tryCount |-> r.TryCount, maxTryCount |-> r.Retry]

\* processor.go:51-59: the variables handed to the template engine.
getVarMap(r) ==
    [offset |-> r.Offset, batchSize |-> r.BatchSize,
     limit |-> r.Offset + r.BatchSize,
     tryCount |-> r.TryCount, maxTryCount |-> r.Retry]

\* A variant of SinkName that numbers the attempts.
SinkNameWithTry(r) ==
    "exec-" \o ToString(r.Offset) \o "-" \o ToString(r.TryCount)

\* processor.go:165: fmt.Sprintf("exec-%d-%d", r.Offset, r.BatchSize).
SinkName(r) ==
    "exec-" \o ToString(r.Offset) \o "-" \o ToString(r.BatchSize)

\* logger.NewFileWriter: the file of the sink called name, in the log
\* directory.
LogFileName(name) == name \o ".log"

\* A variant of NewCtxExpired for one deadline set when the job is received
\* and shared by its attempts.
NewCtxExpiredInherited(w) == expired[w]

\* processor.go:106: context.WithTimeout(r.rootCtx, r.Timeout) gives each
\* attempt a deadline r.Timeout > 0 ahead, which has not passed.
NewCtxExpired(w) == FALSE

\* processor.go:142, 151: template.EvaluateTemplate on a template that
\* renders (the engine is an external collaborator): an empty template renders
\* to the empty text, any other to text that depends on the job's variables,
\* here its offset.
Render(text, varMap) ==
    IF text = "" THEN "" ELSE text \o " " \o ToString(varMap.offset)

\* processor.go:162-163: append(args, cmd) on the slice every ExecRequest
\* shares (executor.go:59-68 copies cfg.ShellArgs' header into each request)
\* stores cmd in the array of cfg.ShellArgs when capacity is left past its
\* length, and in a fresh array of the caller otherwise.
AppendInPlace(c) == Len(c.ShellArgs) < c.ArgsCap

\* processor.go:193: the elements exec.CommandContext copies out of args: the
\* shell arguments, and then what the element after them holds at that time.
\* After an append in place that element is the shared one.
ArgsRead(w) ==
    cfg.ShellArgs \o
        << IF AppendInPlace(cfg) THEN spare
           ELSE Render(cfg.Command, getVarMap(req[w])) >>

\* A variant of AfterPrepareArgs that ignores the error of prepareArgs.
AfterPrepareArgsIgnoringErr(rendered) == "spawnProcess"

\* processor.go:102-105: where process goes after prepareArgs.
AfterPrepareArgs(rendered) ==
    IF rendered = "ok" THEN "spawnProcess" ELSE "return err"

\* processor.go:95-107, 141-173: process renders the command and the stdin
\* templates (the renderer is an external collaborator: each call either
\* yields text or fails); on success the sink of the attempt is made under
\* its name and the attempt's context is derived with a fresh timeout.
PrepareArgs(w) ==
    /\ wpc[w] = "prepareArgs"
    /\ \E rendered \in {"ok", "command error", "stdin error"} :
        /\ renderFails' = [renderFails EXCEPT
                             ![w] = IF rendered = "ok" THEN @
                                    ELSE Min(@ + 1, CountCap)]
        /\ IF AfterPrepareArgs(rendered) = "spawnProcess"
              THEN /\ wpc' = [wpc EXCEPT ![w] = "spawnProcess"]
                   /\ expired' = [expired EXCEPT ![w] = NewCtxExpired(w)]
                   /\ att' = [att EXCEPT ![w] = NoAttempt]
                   /\ jobs' = [jobs EXCEPT ![cur[w]].names =
                                                @ \cup {SinkName(req[w])}]
                   /\ spare' = IF AppendInPlace(cfg)
                                  THEN Render(cfg.Command, getVarMap(req[w]))
                                  ELSE spare
                   /\ UNCHANGED req
              ELSE /\ Fail(w)
                   /\ att' = [att EXCEPT ![w] =
                                [cause |-> "render", ec |-> 0,
                                 err |-> Err(rendered, 0)]]
                   /\ UNCHANGED <<expired, spare>>
    /\ UNCHANGED <<stdinw, argv>>
    /\ UNCHANGED <<cfg, ctxDone, ctrlVars, waiter, cur, proc, calls, draining,
                   cancelInFlight, killedByRoot>>

\* A variant of AttemptCtxDone whose context is not derived from the root.
AttemptCtxDetached(w) == expired[w]

\* A variant of AttemptCtxDone whose context has no deadline of its own.
AttemptCtxNoDeadline(w) == ctxDone

\* processor.go:106: the attempt's context is done when the root is cancelled
\* or the attempt's own deadline has passed.
AttemptCtxDone(w) == ctxDone \/ expired[w]

\* The timer of context.WithTimeout (processor.go:106) fires: at any time
\* from the creation of the context to the return of spawnProcess.
Timeout(w) ==
    /\ wpc[w] \in {"spawnProcess", "start", "fork", "wait"}
    /\ ~expired[w]
    /\ expired' = [expired EXCEPT ![w] = TRUE]
    /\ UNCHANGED <<stdinw, argv, spare>>
    /\ UNCHANGED <<cfg, ctxDone, ctrlVars, waiter, wpc, req, cur, proc, calls,
                   renderFails, att, draining, jobs, cancelInFlight,
                   killedByRoot>>

\* processor.go:216: what spawnSubprocess sends when proc.Start fails.
StartFailedCode == 1

\* processor.go:225: what spawnSubprocess sends when Process.Wait fails.
WaitFailedCode == -1

\* processor.go:228: ProcessState.ExitCode of a process ended by a signal.
KilledCode == -1

\* processor.go:228: the exit codes of a subprocess that exits by itself.
ExitCodes == {0, 1}

\* A variant of SpawnResult that takes only a positive code for a failure.
SpawnResultPositiveOnly(ec) ==
    IF ec > 0 THEN Err("process exited with non-zero status", ec) ELSE ErrNil

\* processor.go:204-209: spawnProcess's result for the code received on
\* sigChan.
SpawnResult(ec) ==
    IF ec # 0 THEN Err("process exited with non-zero status", ec) ELSE ErrNil

\* processor.go:255-274: connectPipes starts the goroutine that writes the
\* rendered stdin. With nothing to write the goroutine never enters its loop
\* and only closes the pipe: it is followed no further. The goroutine of an
\* earlier attempt that has not written yet finds its pipe gone (that attempt
\* is over): its fate is the one StdinLoop gives for a pipe that is not open.
StartWriter(old, data) ==
    IF old.st \in {"writing", "retrying"}
        THEN [st |-> "retrying", data |-> old.data]
    ELSE IF data = "" THEN NoWriter
    ELSE [st |-> "writing", data |-> data]

\* processor.go:116-124, 175-204: spawnProcess is invoked: exec.CommandContext
\* copies the arguments, connectPipes makes the pipes and starts the two
\* io.Copy goroutines once the stdout and stderr pipes exist
\* (processor.go:243-254) and the stdin writer once the stdin pipe exists;
\* then spawnSubprocess is started as a goroutine and spawnProcess blocks on
\* <-sigChan.
SpawnProcess(w) ==
    /\ wpc[w] = "spawnProcess"
    /\ calls' = [calls EXCEPT ![w] = Min(@ + 1, CountCap)]
    /\ argv' = [argv EXCEPT ![w] = ArgsRead(w)]
    /\ \/ /\ Fail(w)               \* connectPipes failed (processor.go:196)
          /\ att' = [att EXCEPT ![w] = [cause |-> "pipes", ec |-> 0,
                                        err |-> Err("pipe error", 0)]]
          /\ \E copying \in BOOLEAN :
                draining' = [draining EXCEPT ![w] = @ \/ copying]
          /\ UNCHANGED stdinw
       \/ /\ wpc' = [wpc EXCEPT ![w] = "start"]   \* processor.go:201-204
          /\ draining' = [draining EXCEPT ![w] = TRUE]
          /\ stdinw' = [stdinw EXCEPT ![w] =
                StartWriter(@, Render(cfg.StdIn, getVarMap(req[w])))]
          /\ UNCHANGED <<req, jobs, att>>
    /\ UNCHANGED <<cfg, ctxDone, ctrlVars, waiter, cur, expired, proc,
                   renderFails, spare, cancelInFlight, killedByRoot>>

\* processor.go:213-218, 204-207: proc.Start returns an error, spawnSubprocess
\* sends 1 on sigChan and spawnProcess returns the error of a non-zero
\* status. Start has closed the pipes.
StartFailed(w) ==
    /\ Fail(w)
    /\ att' = [att EXCEPT ![w] = [cause |-> "start", ec |-> StartFailedCode,
                                  err |-> SpawnResult(StartFailedCode)]]
    /\ UNCHANGED <<cfg, ctxDone, ctrlVars, waiter, cur, expired, proc, calls,
                   renderFails, draining, stdinw, argv, spare, cancelInFlight,
                   killedByRoot>>

\* processor.go:213: proc.Start begins. It returns the error of a program
\* that was not found, and tests the attempt's context once: a context that
\* is done makes it return ctx.Err(); otherwise it goes on to start the
\* program.
StartChecks(w) ==
    /\ wpc[w] = "start"
    /\ \/ AttemptCtxDone(w) /\ StartFailed(w)
       \/ StartFailed(w)          \* the program is not found
       \/ /\ ~AttemptCtxDone(w)
          /\ wpc' = [wpc EXCEPT ![w] = "fork"]
          /\ UNCHANGED <<cfg, ctxDone, ctrlVars, waiter, req, cur, expired,
                         proc, calls, renderFails, att, draining, stdinw,
                         argv, spare, jobs, cancelInFlight, killedByRoot>>

\* processor.go:213-222: proc.Start, past its test of the context, starts the
\* program, whatever has become of the context meanwhile, or fails to
\* (permission denied); spawnSubprocess then waits for the process.
StartForks(w) ==
    /\ wpc[w] = "fork"
    /\ \/ StartFailed(w)
       \/ /\ proc' = [proc EXCEPT ![w] = "running"]
          /\ wpc' = [wpc EXCEPT ![w] = "wait"]
          /\ UNCHANGED <<cfg, ctxDone, ctrlVars, waiter, req, cur, expired,
                         calls, renderFails, att, draining, stdinw, argv,
                         spare, jobs, cancelInFlight, killedByRoot>>

\* The pipes of the processor's current attempt are open: from connectPipes
\* until proc.Start fails or the subprocess is over.
PipesOpen(w) == wpc[w] \in {"start", "fork"} \/ proc[w] = "running"

\* processor.go:85-89, 125-138, 204-209, 222-230: Process.Wait has returned and
\* the code ec arrives on sigChan: spawnProcess returns, and with it process.
\* Nothing waits for the io.Copy goroutines: they may have seen the end of
\* their pipes already, or not yet.
AttemptEnds(w, ec, cause) ==
    /\ proc' = [proc EXCEPT ![w] = "none"]
    /\ att' = [att EXCEPT ![w] = [cause |-> cause, ec |-> ec,
                                  err |-> SpawnResult(ec)]]
    /\ \E copying \in BOOLEAN : draining' = [draining EXCEPT ![w] = copying]
    /\ IF SpawnResult(ec) = ErrNil
          THEN /\ wpc' = [wpc EXCEPT ![w] = "wgDone"]
               /\ jobs' = [jobs EXCEPT ![cur[w]].outcome = "succeeded"]
               /\ UNCHANGED req
          ELSE Fail(w)

\* processor.go:222-230: the subprocess completes on its own, with code 0 or
\* not; Process.Wait returns its status whatever the state of the context.
ProcExit(w) ==
    /\ wpc[w] = "wait"
    /\ proc[w] = "running"
    /\ \E ec \in ExitCodes : AttemptEnds(w, ec, "exit")
    /\ UNCHANGED <<stdinw, argv, spare>>
    /\ UNCHANGED <<cfg, ctxDone, ctrlVars, waiter, cur, expired, calls,
                   renderFails, cancelInFlight,
                   killedByRoot>>

\* processor.go:222-226: Process.Wait returns an error.
WaitFails(w) ==
    /\ wpc[w] = "wait"
    /\ proc[w] = "running"
    /\ AttemptEnds(w, WaitFailedCode, "wait")
    /\ UNCHANGED <<stdinw, argv, spare>>
    /\ UNCHANGED <<cfg, ctxDone, ctrlVars, waiter, cur, expired, calls,
                   renderFails, cancelInFlight,
                   killedByRoot>>

\* processor.go:193: exec.CommandContext kills the subprocess once the
\* attempt's context is done; a killed process reports exit code -1.
Kill(w) ==
    /\ wpc[w] = "wait"
    /\ proc[w] = "running"
    /\ AttemptCtxDone(w)
    /\ AttemptEnds(w, KilledCode, "killed")
    /\ killedByRoot' = (killedByRoot \/ ~expired[w])
    /\ UNCHANGED <<stdinw, argv, spare>>
    /\ UNCHANGED <<cfg, ctxDone, ctrlVars, waiter, cur, expired, calls,
                   renderFails, cancelInFlight>>

\* processor.go:243-254: the io.Copy goroutines return when their pipes reach
\* the end, which needs the pipes closed: Start failed, or the subprocess is
\* gone.
StreamsEOF(w) ==
    /\ draining[w]
    /\ ~PipesOpen(w)
    /\ draining' = [draining EXCEPT ![w] = FALSE]
    /\ UNCHANGED <<stdinw, argv, spare>>
    /\ UNCHANGED <<cfg, ctxDone, ctrlVars, waiter, wpc, req, cur, expired,
                   proc, calls, renderFails, att, jobs, cancelInFlight,
                   killedByRoot>>

\* processor.go:260-274: the stdin-writing goroutine. mustWrite is the length
\* of the data; a Write on the open pipe (before Start has returned, or of a
\* running subprocess) takes all of it, a Write on a pipe that is gone (Start
\* failed, or the subprocess is over) returns 0 and an error, which is
\* logged; the loop goes on while
\* totalWrites < mustWrite, and iW.Close follows the loop.
StdinLoop(data, open) ==
    LET mustWrite == Len(data)
        n == IF open THEN mustWrite ELSE 0
        totalWrites == 0 + n
    IN  IF totalWrites < mustWrite
            THEN [st |-> "retrying", data |-> data]
            ELSE NoWriter

\* processor.go:260-274: the stdin-writing goroutine runs.
StdinWrite(w) ==
    /\ stdinw[w].st = "writing"
    /\ stdinw' = [stdinw EXCEPT ![w] =
                    StdinLoop(@.data, PipesOpen(w))]
    /\ UNCHANGED <<cfg, ctxDone, ctrlVars, waiter, wpc, req, cur, expired,
                   proc, calls, renderFails, att, draining, argv, spare, jobs,
                   cancelInFlight, killedByRoot>>

\* A variant of WgDone that skips wg.Done for a job that failed (the
\* processor continues with the next request).
WgDoneSkippedOnFailure(w) ==
    /\ wpc[w] = "wgDone"
    /\ IF jobs[cur[w]].outcome = "failed"
          THEN UNCHANGED <<wg, jobs>>
          ELSE /\ wg' = wg - 1
               /\ jobs' = [jobs EXCEPT ![cur[w]].done = @ + 1]
    /\ wpc' = [wpc EXCEPT ![w] = "range"]
    /\ req' = [req EXCEPT ![w] = NoReq]
    /\ cur' = [cur EXCEPT ![w] = 0]
    /\ calls' = [calls EXCEPT ![w] = 0]
    /\ renderFails' = [renderFails EXCEPT ![w] = 0]
    /\ expired' = [expired EXCEPT ![w] = FALSE]
    /\ att' = [att EXCEPT ![w] = NoAttempt]
    /\ argv' = [argv EXCEPT ![w] = <<>>]
    /\ UNCHANGED <<stdinw, spare>>
    /\ UNCHANGED <<cfg, ctxDone, pc, i, closed, pending, result, waiter, proc,
                   draining, cancelInFlight, killedByRoot>>

\* processor.go:91: wg.Done, once per ExecRequest; the processor goes back to
\* receiving.
WgDone(w) ==
    /\ wpc[w] = "wgDone"
    /\ wg' = wg - 1
    /\ jobs' = [jobs EXCEPT ![cur[w]].done = @ + 1]
    /\ wpc' = [wpc EXCEPT ![w] = "range"]
    /\ req' = [req EXCEPT ![w] = NoReq]
    /\ cur' = [cur EXCEPT ![w] = 0]
    /\ calls' = [calls EXCEPT ![w] = 0]
    /\ renderFails' = [renderFails EXCEPT ![w] = 0]
    /\ expired' = [expired EXCEPT ![w] = FALSE]
    /\ att' = [att EXCEPT ![w] = NoAttempt]
    /\ argv' = [argv EXCEPT ![w] = <<>>]
    /\ UNCHANGED <<stdinw, spare>>
    /\ UNCHANGED <<cfg, ctxDone, pc, i, closed, pending, result, waiter, proc,
                   draining, cancelInFlight, killedByRoot>>

\* processor.go:83: range over a closed channel ends the processor.
WorkerExit(w) ==
    /\ wpc[w] = "range"
    /\ closed
    /\ wpc' = [wpc EXCEPT ![w] = "exited"]
    /\ UNCHANGED <<stdinw, argv, spare>>
    /\ UNCHANGED <<cfg, ctxDone, ctrlVars, waiter, req, cur, expired, proc,
                   calls, renderFails, att, draining, jobs, cancelInFlight,
                   killedByRoot>>

\* ------------------------------------------------------------ specification
Next ==
    \/ ValidateFatal
    \/ StartWorkers
    \/ LoopNext
    \/ LoopEnd
    \/ SelectPoll
    \/ Return
    \/ WaiterWake
    \/ Cancel
    \/ \E w \in Workers :
        \/ Dispatch(w)
        \/ PrepareArgs(w)
        \/ Timeout(w)
        \/ SpawnProcess(w)
        \/ StartChecks(w)
        \/ StartForks(w)
        \/ ProcExit(w)
        \/ WaitFails(w)
        \/ Kill(w)
        \/ StreamsEOF(w)
        \/ StdinWrite(w)
        \/ WgDone(w)
        \/ WorkerExit(w)

Spec == Init /\ [][Next]_vars

\* The configurations of the fair specification: one processor with and
\* without a retry, two processors, one configuration that Validate rejects,
\* and the one with text for stdin.
FairCfgs ==
    { [BaseCfg EXCEPT !.Retry = r] : r \in 0..1 }
    \cup { [BaseCfg EXCEPT !.Parallel = 2], [BaseCfg EXCEPT !.Shell = ""] }
    \cup StdinCfgs

InitFair == Init /\ cfg \in FairCfgs

\* The Go runtime keeps running the goroutine that exec.CommandContext starts
\* to kill the subprocess when the attempt's context is done.
FairSpec == InitFair /\ [][Next]_vars /\ \A w \in Workers : WF_vars(Kill(w))

\* The Go runtime also keeps running the processors: a processor that can
\* call wg.Done, or leave a closed channel's range, does.
FairWorkerSpec ==
    /\ InitFair
    /\ [][Next]_vars
    /\ \A w \in Workers :
        WF_vars(Kill(w)) /\ WF_vars(WgDone(w)) /\ WF_vars(WorkerExit(w))

\* The configurations of the specification of termination: those of the fair
\* specification, and one job with the largest retry budget a uint holds.
TermCfgs ==
    FairCfgs \cup { [BaseCfg EXCEPT !.Limit = 1, !.Retry = MaxUint] }

InitTerm == cfg \in TermCfgs /\ InitState

\* The Go runtime keeps running every goroutine that can take a step: the
\* controller, the goroutine of asChan and the processors. The timer of an
\* attempt's context fires while the subprocess has not exited by itself, and
\* the subprocess is then killed. Nothing makes a subprocess exit by itself,
\* and nothing cancels the root context.
TermSpec ==
    /\ InitTerm
    /\ [][Next]_vars
    /\ WF_vars(StartWorkers) /\ WF_vars(LoopNext) /\ WF_vars(LoopEnd)
    /\ WF_vars(SelectPoll) /\ WF_vars(Return) /\ WF_vars(WaiterWake)
    /\ \A w \in Workers :
        /\ WF_vars(Dispatch(w)) /\ WF_vars(PrepareArgs(w))
        /\ WF_vars(SpawnProcess(w)) /\ WF_vars(StartChecks(w))
        /\ WF_vars(StartForks(w)) /\ WF_vars(Timeout(w))
        /\ WF_vars(Kill(w)) /\ WF_vars(WgDone(w)) /\ WF_vars(WorkerExit(w))

\* ------------------------------------------------------------------ claims
Dispatched == pc \in {"select", "blocked", "retCtx", "retWait", "returned"}

\* The requests sent so far: those received, then the one being sent.
Sent ==
    [j \in 1..Len(jobs) |-> [Offset |-> jobs[j].Offset,
                             BatchSize |-> jobs[j].BatchSize]]
    \o (IF pc = "send"
           THEN <<[Offset |-> pending.Offset, BatchSize |-> pending.BatchSize]>>
           ELSE <<>>)

RangeEnd(r) == r.Offset + r.BatchSize

\* C1: with a valid configuration and offset < limit, the requests sent are
\* contiguous from offset, never overlap or overrun limit, have the configured
\* batch size except a smaller last one, and after the dispatch loop they
\* cover [offset, limit) exactly.
C1_PartitionCoversRange ==
    (Validate(cfg) = "nil" /\ cfg.Offset < cfg.Limit) =>
        /\ \A j \in 1..Len(Sent) :
            /\ Sent[j].Offset = IF j = 1 THEN cfg.Offset ELSE RangeEnd(Sent[j - 1])
            /\ Sent[j].BatchSize >= 1
            /\ RangeEnd(Sent[j]) <= cfg.Limit
            /\ \/ Sent[j].BatchSize = cfg.BatchSize
               \/ /\ Sent[j].BatchSize < cfg.BatchSize
                  /\ RangeEnd(Sent[j]) = cfg.Limit
        /\ Dispatched =>
            /\ Len(Sent) >= 1
            /\ RangeEnd(Sent[Len(Sent)]) = cfg.Limit

C1_Witness ==
    /\ pc = "returned"
    /\ Len(jobs) = 2
    /\ jobs[1].BatchSize = cfg.BatchSize
    /\ jobs[2].BatchSize < cfg.BatchSize
    /\ RangeEnd(jobs[2]) = cfg.Limit

RECURSIVE SumDone(_)
SumDone(n) == IF n = 0 THEN 0 ELSE jobs[n].done + SumDone(n - 1)

Idle(w) == wpc[w] \in {"none", "range", "exited"}

\* C2: every request received is decremented for exactly once: never twice,
\* and exactly once as soon as its processor has left it; when every
\* processor is idle after the dispatch loop, the decrements equal the
\* requests dispatched.
C2_OneDonePerRequest ==
    /\ \A j \in 1..Len(jobs) :
        /\ jobs[j].done <= 1
        /\ jobs[j].done = 1 <=> (\A w \in Workers : cur[w] # j)
    /\ (Dispatched /\ \A w \in Workers : Idle(w)) => SumDone(Len(jobs)) = Len(jobs)

C2_Witness ==
    /\ Dispatched
    /\ \A w \in Workers : Idle(w)
    /\ Len(jobs) >= 2
    /\ \E j \in 1..Len(jobs) : jobs[j].outcome = "succeeded"
    /\ \E j \in 1..Len(jobs) : jobs[j].outcome = "failed"
    /\ SumDone(Len(jobs)) = Len(jobs)

\* C3: when a job without render failure reaches wg.Done with k failed
\* attempts and retry budget R, spawnProcess was invoked min(k+1, R+1) times,
\* and the job succeeded exactly when k <= R.
C3_RetryBudget ==
    \A w \in Workers :
        (wpc[w] = "wgDone" /\ renderFails[w] = 0) =>
            /\ calls[w] = Min(req[w].TryCount + 1, req[w].Retry + 1)
            /\ jobs[cur[w]].outcome = "succeeded" <=> req[w].TryCount <= req[w].Retry

C3_Witness ==
    \E w \in Workers :
        /\ wpc[w] = "wgDone"
        /\ renderFails[w] = 0
        /\ req[w].Retry = 2
        /\ req[w].TryCount = 2
        /\ calls[w] = 3
        /\ jobs[cur[w]].outcome = "succeeded"

\* C4: after a render failure the processor makes no further attempt for the
\* job: it is at wg.Done.
C4_RenderFailureNotRetried ==
    \A w \in Workers : renderFails[w] >= 1 => wpc[w] = "wgDone"

\* C5: a step in which a render fails invokes no spawnProcess, starts no
\* subprocess, ends the attempt, and changes nothing of any other processor
\* or job.
C5_RenderFailureSpawnsNothing ==
    [][\A w \in Workers :
        renderFails'[w] > renderFails[w] =>
            /\ calls' = calls
            /\ proc' = proc
            /\ wpc'[w] \in {"prepareArgs", "wgDone"}
            /\ \A v \in Workers \ {w} :
                /\ wpc'[v] = wpc[v]
                /\ req'[v] = req[v]
                /\ cur'[v] = cur[v]
            /\ \A j \in 1..Len(jobs) : j # cur[w] => jobs'[j] = jobs[j]]_vars

C5_Witness ==
    \E w \in Workers :
        /\ wpc[w] = "wgDone"
        /\ renderFails[w] >= 1
        /\ calls[w] = 0
        /\ proc[w] = "none"
        /\ \E j \in 1..Len(jobs) : j # cur[w] /\ jobs[j].outcome = "succeeded"

\* C6: when the root context was cancelled while a job was in flight,
\* StartExecution returns the cancellation error.
C6_CancelInFlightReturnsError ==
    (cancelInFlight /\ pc = "returned") => result = "error"

NoProcRunning == \A w \in Workers : proc[w] # "running"

\* C7: once the root context is cancelled, eventually no subprocess is
\* running, and none runs from then on.
C7_CancelKillsSubprocesses == ctxDone ~> [](NoProcRunning)

C7_Witness == ctxDone /\ killedByRoot /\ NoProcRunning

\* C8: when StartExecution has returned, no subprocess is running.
C8_NoProcessAfterReturn == pc = "returned" => NoProcRunning

\* C9: with a valid configuration and the root context not cancelled,
\* StartExecution returns nothing but success, whatever the jobs' outcomes.
C9_JobFailuresDoNotFailRun ==
    (Validate(cfg) = "nil" /\ ~ctxDone) =>
        /\ result \in {"none", "nil"}
        /\ pc = "returned" => result = "nil"

C9_Witness ==
    /\ pc = "returned"
    /\ result = "nil"
    /\ ~ctxDone
    /\ \E j \in 1..Len(jobs) : jobs[j].outcome = "failed"
    /\ \E j \in 1..Len(jobs) : jobs[j].outcome = "succeeded"

\* Every field but offset and limit passes Validate.
OtherFieldsValid ==
    /\ cfg.Shell # ""
    /\ cfg.Command # ""
    /\ cfg.WorkingDirectory # "" => Stat(cfg.WorkingDirectory) = "dir"
    /\ cfg.LogDir # "" => Stat(cfg.LogDir) = "dir"
    /\ cfg.BatchSize > 0
    /\ cfg.Timeout > 0
    /\ cfg.Parallel > 0

\* No request is dispatched, and the run ends with success, not with a
\* configuration error.
ZeroJobsAndSuccess ==
    /\ pc # "fatal"
    /\ Len(Sent) = 0
    /\ wg = 0
    /\ pc = "returned" => result = "nil"

\* C10 as stated: offset = limit, zero included, dispatches nothing and
\* succeeds (the root context not being cancelled).
C10_EmptyRangeSucceeds ==
    (cfg.Offset = cfg.Limit /\ cfg.Offset >= 0 /\ OtherFieldsValid /\ ~ctxDone)
        => ZeroJobsAndSuccess

\* C10 amended: offset = limit > 0 dispatches nothing and succeeds (the root
\* context not being cancelled).
C10_EmptyPositiveRangeSucceeds ==
    (cfg.Offset = cfg.Limit /\ cfg.Limit > 0 /\ OtherFieldsValid /\ ~ctxDone)
        => ZeroJobsAndSuccess

C10_Witness ==
    /\ cfg.Offset = cfg.Limit
    /\ cfg.Limit > 0
    /\ pc = "returned"
    /\ result = "nil"
    /\ Len(jobs) = 0

\* ceil(n / b) for n >= 0 and b > 0.
CeilDiv(n, b) == (n + b - 1) \div b

\* C11: in a run that is not cancelled, never more than
\* ceil((limit - offset) / batchSize) requests are sent, and when the dispatch
\* loop has ended exactly that many have been received.
C11_JobCount ==
    (Validate(cfg) = "nil" /\ ~ctxDone) =>
        /\ Len(Sent) <= CeilDiv(cfg.Limit - cfg.Offset, cfg.BatchSize)
        /\ Dispatched =>
            Len(jobs) = CeilDiv(cfg.Limit - cfg.Offset, cfg.BatchSize)

\* offset 0, limit 3, batch size 2: the two jobs [0,2) and [2,3).
C11_Witness ==
    /\ pc = "returned"
    /\ ~ctxDone
    /\ cfg.Offset = 0 /\ cfg.Limit = 3 /\ cfg.BatchSize = 2
    /\ Len(jobs) = 2
    /\ jobs[1].Offset = 0 /\ RangeEnd(jobs[1]) = 2
    /\ jobs[2].Offset = 2 /\ RangeEnd(jobs[2]) = 3

\* The constraints the claim lists.
ListedConstraints(c) ==
    /\ 0 <= c.Offset
    /\ c.Offset <= c.Limit
    /\ c.BatchSize > 0
    /\ c.Timeout > 0
    /\ c.Parallel > 0
    /\ c.Shell # ""
    /\ c.Command # ""

\* The directories named exist.
DirsExist(c) ==
    /\ c.WorkingDirectory # "" => Stat(c.WorkingDirectory) = "dir"
    /\ c.LogDir # "" => Stat(c.LogDir) = "dir"

\* No processor, request, subprocess or helper goroutine exists.
NothingStarted ==
    /\ \A w \in Workers : wpc[w] = "none" /\ proc[w] = "none" /\ calls[w] = 0
    /\ jobs = <<>>
    /\ pending = NoReq
    /\ wg = 0
    /\ waiter = "none"

\* A rejected configuration never gets past validation.
RejectedAborts ==
    Validate(cfg) # "nil" => (pc \in {"validate", "fatal"} /\ NothingStarted)

\* C12 as stated: a configuration violating a listed constraint is rejected
\* and aborts the run with nothing started; one satisfying them all, with
\* existing directories, is accepted.
C12_ValidationGate ==
    /\ ~ListedConstraints(cfg) => Validate(cfg) # "nil"
    /\ RejectedAborts
    /\ (ListedConstraints(cfg) /\ DirsExist(cfg)) => Validate(cfg) = "nil"

\* C12 amended: the same, the accepted configurations having limit > 0 as
\* well.
C12_ValidationGatePositiveLimit ==
    /\ ~ListedConstraints(cfg) => Validate(cfg) # "nil"
    /\ RejectedAborts
    /\ (ListedConstraints(cfg) /\ cfg.Limit > 0 /\ DirsExist(cfg))
            => Validate(cfg) = "nil"

C12_Witness ==
    /\ pc = "fatal"
    /\ cfg.Timeout = 0
    /\ cfg.Offset >= 0 /\ cfg.Offset < cfg.Limit
    /\ cfg.BatchSize > 0 /\ cfg.Parallel > 0
    /\ NothingStarted

\* C13 as stated: the counter leaves zero only once, at the first wg.Add: it
\* never touches zero after a request was received and rises again.
C13_CounterZeroOnce ==
    [][(wg = 0 /\ wg' > 0) => jobs = <<>>]_vars

\* Every request received has been decremented for.
AllDone == \A j \in 1..Len(jobs) : jobs[j].done = 1

\* C13 amended: once the dispatch loop has ended the counter never rises, so
\* it goes to zero at most once and stays there, and it is zero exactly when
\* every request received has been decremented for.
C13_CounterZeroOnceAfterDispatch ==
    [][Dispatched => /\ Dispatched'
                     /\ wg' <= wg
                     /\ wg = 0 <=> AllDone]_vars

C13_Witness ==
    /\ pc = "returned"
    /\ result = "nil"
    /\ Len(jobs) >= 2
    /\ wg = 0
    /\ AllDone

Started == {w \in Workers : wpc[w] # "none"}
Running == {w \in Workers : proc[w] = "running"}

\* C14: once the processors are started there are exactly cfg.Parallel of
\* them, and never more than cfg.Parallel subprocesses run, each under a
\* processor that waits for it.
C14_AtMostParallelSubprocesses ==
    /\ pc \notin {"validate", "fatal"} => Cardinality(Started) = cfg.Parallel
    /\ Cardinality(Running) <= cfg.Parallel
    /\ \A w \in Running : wpc[w] = "wait"

\* Fewer processors than the model has room for, all of them with a running
\* subprocess, and the Controller blocked sending the next request.
C14_Witness ==
    /\ cfg.Parallel < MaxParallel
    /\ Cardinality(Running) = cfg.Parallel
    /\ pc = "send"

\* The requests received and not yet decremented for.
Outstanding == {j \in 1..Len(jobs) : jobs[j].done = 0}

\* C15: never more than cfg.Parallel requests are received and unfinished,
\* and the counter never exceeds cfg.Parallel + 1.
C15_Backpressure ==
    Validate(cfg) = "nil" =>
        /\ Cardinality(Outstanding) <= cfg.Parallel
        /\ wg <= cfg.Parallel + 1
        /\ wg = Cardinality(Outstanding) + (IF pc = "send" THEN 1 ELSE 0)

C15_Witness ==
    /\ pc = "send"
    /\ wg = cfg.Parallel + 1
    /\ Cardinality(Outstanding) = cfg.Parallel
    /\ i + cfg.BatchSize < cfg.Limit

\* The helper goroutine of asChan has reached 'ch <- nil' after the select is
\* over: nothing receives from ch any more, so it is blocked for ever.
WaiterBlockedForever == pc = "returned" /\ waiter = "sending"

\* C16: after a return on the cancellation branch no goroutine of the run is
\* left blocked for ever.
C16_NoGoroutineLeakAfterCancel ==
    (pc = "returned" /\ result = "error") => ~WaiterBlockedForever

\* spawnProcess has just returned to the processor.
SpawnReturned(w) == att[w].cause \in {"pipes", "start", "exit", "killed", "wait"}

\* spawnProcess has just returned after its subprocess ran.
SubprocessEnded(w) == att[w].cause \in {"exit", "killed", "wait"}

\* C17: when spawnProcess has returned after its subprocess ran, no io.Copy
\* goroutine of the processor's attempts is still running, so nothing more
\* reaches the sink.
C17_StreamsJoinedOnReturn ==
    \A w \in Workers : SubprocessEnded(w) => ~draining[w]

\* The attempt's context is done while its subprocess runs.
Overdue(w) == proc[w] = "running" /\ (ctxDone \/ expired[w])

\* C18: a subprocess still running when its attempt's deadline expires or the
\* root context is cancelled does not go on running; its attempt ends with an
\* error from spawnProcess and one more failed attempt counted.
C18_DeadlineKills ==
    /\ [][\A w \in Workers :
            (Overdue(w) /\ proc'[w] # "running") =>
                /\ att'[w].cause \in {"killed", "wait"}
                /\ att'[w].err # ErrNil
                /\ req'[w].TryCount = req[w].TryCount + 1
                /\ wpc'[w] = AfterLoopCond(req'[w])]_vars
    /\ \A w \in Workers : Overdue(w) ~> proc[w] # "running"

\* A subprocess killed at its own deadline, the root context not cancelled,
\* and the job retried.
C18_Witness ==
    \E w \in Workers :
        /\ att[w].cause = "killed"
        /\ expired[w]
        /\ ~ctxDone
        /\ req[w].TryCount = 1
        /\ wpc[w] = "prepareArgs"

\* C19: the error spawnProcess returns when the subprocess failed to start is
\* not the error of any subprocess that started and exited with a non-zero
\* code, and the attempt is retried while the budget lasts.
C19_StartFailureDistinct ==
    \A w \in Workers :
        att[w].cause = "start" =>
            /\ \A ec \in ExitCodes \ {0} : att[w].err # SpawnResult(ec)
            /\ wpc[w] = AfterLoopCond(req[w])

\* C20: spawnProcess returns nil exactly when the subprocess was started and
\* exited with code 0; a non-zero code, the one of a failed wait included,
\* gives an error that carries it; the job succeeds exactly on nil.
C20_SpawnResultByExitCode ==
    \A w \in Workers :
        SpawnReturned(w) =>
            /\ att[w].err = ErrNil <=> (att[w].cause = "exit" /\ att[w].ec = 0)
            /\ att[w].ec # 0 =>
                (att[w].err.msg # "nil" /\ att[w].err.code = att[w].ec)
            /\ att[w].cause = "wait" => att[w].err.code = WaitFailedCode
            /\ att[w].err = ErrNil <=> jobs[cur[w]].outcome = "succeeded"

C20_Witness ==
    \E w \in Workers :
        /\ att[w].cause = "wait"
        /\ att[w].err.code = -1
        /\ \E j \in 1..Len(jobs) : jobs[j].outcome = "succeeded"

\* C21: when a processor is about to render for an attempt, the variables
\* are the job's offset and size, limit = offset + size and at most the
\* global limit, tryCount = the attempts that failed so far for the job and at
\* most maxTryCount, which is the configured retry budget.
C21_RenderVariables ==
    \A w \in Workers :
        wpc[w] = "prepareArgs" =>
            LET v == getVarMap(req[w]) IN
            /\ v.offset = jobs[cur[w]].Offset
            /\ v.batchSize = jobs[cur[w]].BatchSize
            /\ v.limit = v.offset + v.batchSize
            /\ v.limit <= cfg.Limit
            /\ v.tryCount = calls[w] + renderFails[w]
            /\ v.tryCount <= v.maxTryCount
            /\ v.maxTryCount = cfg.Retry

\* The second attempt of the job [1,2), after a render failure and before a
\* last retry.
C21_Witness ==
    \E w \in Workers :
        /\ wpc[w] = "prepareArgs"
        /\ getVarMap(req[w]) = [offset |-> 1, batchSize |-> 1, limit |-> 2,
                                tryCount |-> 1, maxTryCount |-> 2]
        /\ renderFails[w] = 1

\* C22: the log file of every attempt of a job covering [begin, end) is
\* exec-<begin>-<end>.log.
C22_LogFileNamedByRange ==
    \A j \in 1..Len(jobs) :
        \A n \in jobs[j].names :
            LogFileName(n) = "exec-" \o ToString(jobs[j].Offset) \o "-"
                                \o ToString(RangeEnd(jobs[j])) \o ".log"

\* C28: every attempt of a job uses the one name exec-<offset>-<batchSize>,
\* and no two jobs of a run share a name.
C28_SinkNameStableAndUnique ==
    /\ \A j \in 1..Len(jobs) :
        jobs[j].names \subseteq
            {"exec-" \o ToString(jobs[j].Offset) \o "-"
                \o ToString(jobs[j].BatchSize)}
    /\ \A j, k \in 1..Len(jobs) :
        j # k => jobs[j].names \cap jobs[k].names = {}

\* A job rendered for its second attempt, next to another job's sink.
C28_Witness ==
    \E w \in Workers :
        /\ wpc[w] = "spawnProcess"
        /\ req[w].TryCount = 1
        /\ calls[w] = 1
        /\ jobs[cur[w]].names # {}
        /\ \E j \in 1..Len(jobs) : j # cur[w] /\ jobs[j].names # {}

\* C23: once StartExecution has returned no processor receives another
\* request; an idle processor does nothing but leave its loop, and does; a
\* processor whose job has reached its outcome leaves its loop as well.
C23_WorkersLeaveAfterClose ==
    /\ [][pc = "returned" =>
            /\ Len(jobs') = Len(jobs)
            /\ \A w \in Workers :
                wpc[w] = "range" => wpc'[w] \in {"range", "exited"}]_vars
    /\ \A w \in Workers :
        (pc = "returned" /\ wpc[w] \in {"range", "wgDone"}) ~> wpc[w] = "exited"

\* After the return one processor has left its loop while the other still
\* waits for its subprocess.
C23_Witness ==
    /\ pc = "returned"
    /\ closed
    /\ \E w, v \in Workers : wpc[w] = "exited" /\ wpc[v] = "wait"

\* C24: the requests are received in strictly ascending order of offset.
C24_AscendingDispatch ==
    \A j, k \in 1..Len(jobs) : j < k => jobs[j].Offset < jobs[k].Offset

\* Three jobs received in order, the second finished before the first.
C24_Witness ==
    /\ Len(jobs) = 3
    /\ jobs[1].done = 0
    /\ jobs[2].done = 1
    /\ jobs[1].Offset < jobs[2].Offset /\ jobs[2].Offset < jobs[3].Offset

\* C25: the expiry of one attempt's deadline leaves the root context and
\* every other processor's attempt as they are; an attempt starts with a
\* deadline that has not passed, whatever happened to the attempt before; a
\* subprocess is killed only when its own deadline has expired or the root is
\* cancelled; and once the root is cancelled every running subprocess can be
\* killed and every proc.Start that tests its context is refused.
C25_ContextPerAttempt ==
    /\ [][\A w \in Workers :
            /\ (~expired[w] /\ expired'[w]) =>
                /\ ctxDone' = ctxDone
                /\ \A v \in Workers \ {w} :
                    expired'[v] = expired[v] /\ proc'[v] = proc[v]
            /\ (wpc[w] = "prepareArgs" /\ wpc'[w] = "spawnProcess") =>
                ~expired'[w]
            /\ (proc[w] = "running" /\ att'[w].cause = "killed") =>
                (ctxDone \/ expired[w])
            /\ (ctxDone /\ wpc[w] = "start" /\ wpc'[w] # "start") =>
                /\ att'[w].cause = "start"
                /\ proc'[w] = "none"]_vars
    /\ [](\A w \in Workers :
            (ctxDone /\ proc[w] = "running") => ENABLED Kill(w))

\* One processor's deadline has expired while the other, retrying its job,
\* runs a subprocess whose deadline has not, and the root is not cancelled.
C25_Witness ==
    \E w, v \in Workers :
        /\ expired[w] /\ proc[w] = "running"
        /\ ~expired[v] /\ proc[v] = "running"
        /\ req[v].TryCount = 1
        /\ ~ctxDone

\* C26: once the root context is cancelled the Controller begins no further
\* send and no further request is received.
C26_NoDispatchAfterCancel ==
    [][ctxDone =>
        /\ ~(pc = "loop" /\ pc' = "send")
        /\ Len(jobs') = Len(jobs)]_vars

\* C30: when StartExecution takes the success branch, the whole range has
\* been dispatched, and every request has been received, has reached its
\* outcome and has been decremented for.
C30_SuccessMeansAllTerminal ==
    (pc = "retWait" \/ result = "nil") =>
        /\ ~LoopCond(i, cfg.Limit)
        /\ pending = NoReq
        /\ Len(jobs) = CeilDiv(cfg.Limit - cfg.Offset, cfg.BatchSize)
        /\ \A j \in 1..Len(jobs) :
            jobs[j].outcome \in {"succeeded", "failed"} /\ jobs[j].done = 1
        /\ \A w \in Workers : Idle(w) /\ proc[w] = "none"
        /\ wg = 0

\* Success after three jobs run by two processors, one job having failed.
C30_Witness ==
    /\ pc = "returned"
    /\ result = "nil"
    /\ cfg.Parallel = 2
    /\ Len(jobs) = 3
    /\ \E j \in 1..Len(jobs) : jobs[j].outcome = "failed"

\* C27: in every attempt the stdin-writing task comes to an end; when a write
\* to the pipe fails with bytes left (the subprocess failed to start, has
\* exited or was killed) the task stops and closes the pipe: it is never
\* left writing again and again.
C27_StdinWriterStops ==
    \A w \in Workers : stdinw[w].st # "retrying"

\* C29: the arguments handed to the subprocess of an attempt are the
\* configured shell arguments followed by the command rendered for the job of
\* that attempt, whatever the other processors do meanwhile.
C29_ArgvIsOwnCommand ==
    \A w \in Workers :
        argv[w] # <<>> =>
            argv[w] = cfg.ShellArgs \o <<Render(cfg.Command, getVarMap(req[w]))>>

\* The requests a processor has received and left again.
Finished == {j \in 1..Len(jobs) : \A w \in Workers : cur[w] # j}

\* C31: the counter of the WaitGroup equals the wg.Add calls made (one per
\* request sent or being sent) minus the requests the processors have
\* finished; it is never negative, and wg.Done has never been called more
\* often than wg.Add.
C31_CounterIsAddsMinusDones ==
    /\ wg = Len(Sent) - Cardinality(Finished)
    /\ wg >= 0
    /\ SumDone(Len(jobs)) <= Len(Sent)

\* One request finished, one held by a processor and one being sent.
C31_Witness ==
    /\ pc = "send"
    /\ wg = 2
    /\ Cardinality(Finished) = 1
    /\ Len(jobs) = 2

\* A processor holds a request.
Holding(w) ==
    wpc[w] \in {"prepareArgs", "spawnProcess", "start", "fork", "wait", "wgDone"}

\* C32: with a valid configuration StartExecution eventually returns,
\* whatever the retry budget: a send of the controller is eventually
\* received, and a processor that holds a request eventually leaves it.
C32_EventuallyReturns ==
    /\ (Validate(cfg) = "nil") ~> (pc = "returned")
    /\ (pc = "send") ~> (pc # "send")
    /\ \A w \in Workers : Holding(w) ~> ~Holding(w)

\* The same for the retry budgets below the largest uint.
C32_EventuallyReturnsBelowMaxUint ==
    /\ (Validate(cfg) = "nil" /\ cfg.Retry < MaxUint) ~> (pc = "returned")
    /\ (pc = "send" /\ cfg.Retry < MaxUint) ~> (pc # "send")
    /\ \A w \in Workers : (Holding(w) /\ cfg.Retry < MaxUint) ~> ~Holding(w)
====
